---- MODULE Spec2Model ----
(***************************************************************************)
(* Model of rl_coach/graph_managers/hac_graph_manager.py:                  *)
(* HACGraphManager.__init__ (validation and default filling) followed by   *)
(* HACGraphManager._create_graph (bottom-up construction of the level      *)
(* managers).  Python indices are kept 0-based (level_idx); the sequences  *)
(* of the model are 1-based, so level i is element i + 1.                  *)
(***************************************************************************)
EXTENDS Integers, Sequences, FiniteSets, TLC

\* ---------------------------------------------------------------- bounds
MaxLevels == 3
MaxDuration == 2

\* ------------------------------------------------------- opaque values
NoFilter == "None"
DefaultInputFilter == "env_default_input_filter"
DefaultOutputFilter == "env_default_output_filter"
InputFilterChoices == {NoFilter, "custom_input_filter"}
OutputFilterChoices == {NoFilter, "custom_output_filter"}
VisParams == "vis_params"
TaskParams == "task_parameters"

Durations == 1..MaxDuration

\* EnvironmentSteps(n) is represented by its number of steps
EnvironmentSteps(n) == n

\* a reference to an object that can serve as an environment
NoRef == [kind |-> "None", id |-> 0]
EnvRef(k) == [kind |-> "Environment", id |-> k]
LevelRef(idx) == [kind |-> "LevelManager", id |-> idx]

\* an attribute of self that was never assigned
Unset == [present |-> FALSE, num_steps |-> 0]
Holds(d) == [present |-> TRUE, num_steps |-> d]

\* ------------------------------------------------------------- inputs
\* an AgentParameters object as the caller hands it over
FreshAgentParams(inf, outf) ==
    [input_filter |-> inf, output_filter |-> outf,
     visualization |-> "agent_own_visualization",
     task_parameters |-> "None",
     name |-> "agent",
     is_a_highest_level_agent |-> TRUE,
     is_a_lowest_level_agent |-> TRUE]

SeqsUpTo(S, n) == UNION {[1..k -> S] : k \in 0..n}

AgentParamsChoices ==
    {FreshAgentParams(i, o) : i \in InputFilterChoices, o \in OutputFilterChoices}

\* the forms of consecutive_steps_to_run_non_top_levels
StepsArgChoices ==
    {[form |-> "single", value |-> d, list |-> <<>>] : d \in Durations}
    \cup {[form |-> "list", value |-> 0, list |-> l] : l \in SeqsUpTo(Durations, MaxLevels)}
    \cup {[form |-> "other", value |-> 0, list |-> <<>>]}

VARIABLES
    pc,                 \* position in __init__ / _create_graph
    given_agents_params,\* the agents_params argument as passed in (never written)
    steps_arg,          \* the consecutive_steps_to_run_non_top_levels argument
    agents_params,      \* self.agents_params (the caller's objects, modified in place)
    consecutive_steps_to_run_non_top_levels,   \* the attribute of self
    error,              \* the exception that ended the operation, if any
    env,                \* local env of _create_graph
    env_instances,      \* number of environments instantiated
    agents,             \* agents instantiated so far, in order of instantiation
    current_env,        \* local current_env of _create_graph
    level_idx,          \* loop variable of _create_graph
    level_managers,     \* local level_managers of _create_graph
    returned            \* the value returned by _create_graph

vars == <<pc, given_agents_params, steps_arg, agents_params,
          consecutive_steps_to_run_non_top_levels, error, env, env_instances,
          agents, current_env, level_idx, level_managers, returned>>

NumLevels == Len(agents_params)

NoResult == [level_managers |-> <<>>, envs |-> <<>>]

Init ==
    /\ pc = "init_validate_steps"
    /\ given_agents_params \in SeqsUpTo(AgentParamsChoices, MaxLevels)
    /\ steps_arg \in StepsArgChoices
    /\ agents_params = given_agents_params
    /\ consecutive_steps_to_run_non_top_levels = Unset
    /\ error = "none"
    /\ env = NoRef
    /\ env_instances = 0
    /\ agents = <<>>
    /\ current_env = NoRef
    /\ level_idx = -1
    /\ level_managers = <<>>
    /\ returned = NoResult

\* ------------------------------------------------------------ __init__
\* variant: only a list that is too long is rejected
ListLengthMismatch_OnlyLonger(arg, n) == Len(arg.list) > n
ListLengthMismatch(arg, n) == Len(arg.list) # n

\* lines 54-60: the list form is only length-checked, the single form is stored
ValidateSteps ==
    /\ pc = "init_validate_steps"
    /\ IF steps_arg.form = "list"
         THEN /\ UNCHANGED consecutive_steps_to_run_non_top_levels
              /\ IF ListLengthMismatch(steps_arg, NumLevels)
                    THEN error' = "ValueError_list_length" /\ pc' = "init_failed"
                    ELSE pc' = "init_fill_defaults" /\ UNCHANGED error
         ELSE /\ IF steps_arg.form = "single"
                   THEN consecutive_steps_to_run_non_top_levels'
                            = Holds(EnvironmentSteps(steps_arg.value))
                   ELSE UNCHANGED consecutive_steps_to_run_non_top_levels
              /\ pc' = "init_fill_defaults"
              /\ UNCHANGED error
    /\ UNCHANGED <<given_agents_params, steps_arg, agents_params, env,
                   env_instances, agents, current_env, level_idx,
                   level_managers, returned>>

default_input_filter == DefaultInputFilter
default_output_filter == DefaultOutputFilter

\* variant: the environment's input filter overwrites an explicit one
FillDefaultsOf_Overwrite(ap) ==
    [ap EXCEPT !.visualization = VisParams,
               !.input_filter = default_input_filter,
               !.output_filter = IF ap.output_filter = NoFilter
                                   THEN default_output_filter ELSE ap.output_filter]

\* variant: the visualization parameters are not propagated
FillDefaultsOf_NoVisualization(ap) ==
    [ap EXCEPT !.input_filter = IF ap.input_filter = NoFilter
                                  THEN default_input_filter ELSE ap.input_filter,
               !.output_filter = IF ap.output_filter = NoFilter
                                   THEN default_output_filter ELSE ap.output_filter]
FillDefaultsOf(ap) ==
    [ap EXCEPT !.visualization = VisParams,
               !.input_filter = IF ap.input_filter = NoFilter
                                  THEN default_input_filter ELSE ap.input_filter,
               !.output_filter = IF ap.output_filter = NoFilter
                                   THEN default_output_filter ELSE ap.output_filter]

\* lines 62-67: the whole loop over agents_params
FillDefaults ==
    /\ pc = "init_fill_defaults"
    /\ agents_params' = [i \in 1..NumLevels |-> FillDefaultsOf(agents_params[i])]
    /\ pc' = "init_check_levels"
    /\ UNCHANGED <<given_agents_params, steps_arg,
                   consecutive_steps_to_run_non_top_levels, error, env,
                   env_instances, agents, current_env, level_idx,
                   level_managers, returned>>

\* variant: a single level is accepted
TooFewLevels_OffByOne(n) == n < 1
TooFewLevels(n) == n < 2

\* lines 69-71
CheckLevels ==
    /\ pc = "init_check_levels"
    /\ IF TooFewLevels(NumLevels)
         THEN /\ error' = "ValueError_too_few_levels"
              /\ pc' = "init_failed"
         ELSE /\ pc' = "constructed"
              /\ UNCHANGED error
    /\ UNCHANGED <<given_agents_params, steps_arg, agents_params,
                   consecutive_steps_to_run_non_top_levels, env, env_instances,
                   agents, current_env, level_idx, level_managers, returned>>

\* ------------------------------------------------------- _create_graph
\* lines 74-75
CreateEnv ==
    /\ pc = "constructed"
    /\ env_instances' = env_instances + 1
    /\ env' = EnvRef(env_instances + 1)
    /\ pc' = "set_task_parameters"
    /\ UNCHANGED <<given_agents_params, steps_arg, agents_params,
                   consecutive_steps_to_run_non_top_levels, error, agents,
                   current_env, level_idx, level_managers, returned>>

\* lines 77-83: task parameters onto every agent, then the loop's initial state
SetTaskParameters ==
    /\ pc = "set_task_parameters"
    /\ agents_params' = [i \in 1..NumLevels |->
                            [agents_params[i] EXCEPT !.task_parameters = TaskParams]]
    /\ level_managers' = <<>>
    /\ current_env' = env
    /\ level_idx' = NumLevels - 1
    /\ pc' = "build_levels"
    /\ UNCHANGED <<given_agents_params, steps_arg,
                   consecutive_steps_to_run_non_top_levels, error, env,
                   env_instances, agents, returned>>

AgentName(idx) == "agent_" \o ToString(idx)
LevelName(idx) == "level_" \o ToString(idx)

\* lines 86-88
PositionedAgentParams(ap, idx, n) ==
    [ap EXCEPT !.name = AgentName(idx),
               !.is_a_highest_level_agent = (idx = 0),
               !.is_a_lowest_level_agent = (idx = n - 1)]

\* line 90: the agent built from an AgentParameters object
NewAgent(ap, idx) == [params_index |-> idx, name |-> ap.name, params |-> ap]

\* lines 96-97: the attribute of self is read only when level_idx # 0
NeedsStepsAttribute(idx) == idx # 0

\* variant: the top level gets the configured duration too
StepsLimit_NoTopCase(idx, attr) == attr.num_steps
StepsLimit(idx, attr) ==
    IF idx = 0 THEN EnvironmentSteps(1) ELSE attr.num_steps

\* variant: the top level resets as well
ShouldReset_Always(idx) == idx >= 0
ShouldReset(idx) == idx > 0

\* variant: the root environment reference follows the lower environment
NewLevelManager_RealIsCurrent(agent, cur, real, idx, attr) ==
    [agents |-> agent,
     environment |-> cur,
     real_environment |-> cur,
     steps_limit |-> StepsLimit(idx, attr),
     should_reset_agent_state_after_time_limit_passes |-> ShouldReset(idx),
     name |-> LevelName(idx)]

\* variant: every level is bound directly to the true environment
NewLevelManager_EnvIsReal(agent, cur, real, idx, attr) ==
    [agents |-> agent,
     environment |-> real,
     real_environment |-> real,
     steps_limit |-> StepsLimit(idx, attr),
     should_reset_agent_state_after_time_limit_passes |-> ShouldReset(idx),
     name |-> LevelName(idx)]
\* lines 92-100
NewLevelManager(agent, cur, real, idx, attr) ==
    [agents |-> agent,
     environment |-> cur,
     real_environment |-> real,
     steps_limit |-> StepsLimit(idx, attr),
     should_reset_agent_state_after_time_limit_passes |-> ShouldReset(idx),
     name |-> LevelName(idx)]

\* variant: level_managers.append(level_manager)
InsertFirst_Append(lms, lm) == Append(lms, lm)
\* line 102: level_managers.insert(0, level_manager)
InsertFirst(lms, lm) == <<lm>> \o lms

\* lines 85-102: one iteration of the loop
BuildLevel ==
    /\ pc = "build_levels"
    /\ level_idx >= 0
    /\ LET ap == PositionedAgentParams(agents_params[level_idx + 1], level_idx, NumLevels)
           agent == NewAgent(ap, level_idx)
       IN /\ agents_params' = [agents_params EXCEPT ![level_idx + 1] = ap]
          /\ agents' = Append(agents, agent)
          /\ IF NeedsStepsAttribute(level_idx)
                 /\ ~consecutive_steps_to_run_non_top_levels.present
               THEN /\ error' = "AttributeError"
                    /\ pc' = "create_failed"
                    /\ UNCHANGED <<level_managers, current_env, level_idx>>
               ELSE /\ LET lm == NewLevelManager(agent, current_env, env, level_idx,
                                       consecutive_steps_to_run_non_top_levels)
                       IN /\ level_managers' = InsertFirst(level_managers, lm)
                          /\ current_env' = LevelRef(level_idx)
                    /\ level_idx' = level_idx - 1
                    /\ UNCHANGED <<error, pc>>
    /\ UNCHANGED <<given_agents_params, steps_arg,
                   consecutive_steps_to_run_non_top_levels, env, env_instances,
                   returned>>

\* line 104
ReturnGraph ==
    /\ pc = "build_levels"
    /\ level_idx < 0
    /\ returned' = [level_managers |-> level_managers, envs |-> <<env>>]
    /\ pc' = "returned"
    /\ UNCHANGED <<given_agents_params, steps_arg, agents_params,
                   consecutive_steps_to_run_non_top_levels, error, env,
                   env_instances, agents, current_env, level_idx, level_managers>>

Next ==
    \/ ValidateSteps
    \/ FillDefaults
    \/ CheckLevels
    \/ CreateEnv
    \/ SetTaskParameters
    \/ BuildLevel
    \/ ReturnGraph

Spec == Init /\ [][Next]_vars

TypeOK ==
    /\ pc \in {"init_validate_steps", "init_fill_defaults", "init_check_levels",
               "init_failed", "constructed", "set_task_parameters",
               "build_levels", "create_failed", "returned"}
    /\ error \in {"none", "ValueError_list_length", "ValueError_too_few_levels",
                  "AttributeError"}
    /\ Len(agents_params) = Len(given_agents_params)
    /\ level_idx \in -1..MaxLevels
\* ------------------------------------------------------------ properties
InInit == pc \in {"init_validate_steps", "init_fill_defaults", "init_check_levels"}
InitFailed == pc = "init_failed"
Accepted == ~InInit /\ ~InitFailed
GivenLevels == Len(given_agents_params)
ValueErrors == {"ValueError_list_length", "ValueError_too_few_levels"}
NothingInstantiated ==
    /\ env_instances = 0 /\ env = NoRef
    /\ agents = <<>>
    /\ level_managers = <<>> /\ returned = NoResult

\* names written out, independently of the formatting done by the model
ExpectedLevelNames == <<"level_0", "level_1", "level_2", "level_3", "level_4", "level_5">>
ExpectedAgentNames == <<"agent_0", "agent_1", "agent_2", "agent_3", "agent_4", "agent_5">>

\* the level index of the p-th entry of a list holding the lowest Len(lms) levels
IndexAt(lms, p) == GivenLevels - Len(lms) + p - 1

\* the duration configured for level idx by the constructor's argument
ConfiguredDuration(idx) ==
    IF steps_arg.form = "single" THEN EnvironmentSteps(steps_arg.value)
    ELSE EnvironmentSteps(steps_arg.list[idx + 1])

\* C1: with fewer than 2 agent configurations, whatever the form of the duration
\* argument, construction never succeeds: it ends with a ValueError and nothing
\* of the graph exists.
C1_FewerThanTwoLevelsFail ==
    GivenLevels < 2 =>
        /\ InInit \/ InitFailed
        /\ InitFailed => error \in ValueErrors
        /\ NothingInstantiated

C1_Witness ==
    /\ InitFailed /\ GivenLevels = 1
    /\ steps_arg.form = "list" /\ Len(steps_arg.list) = 1
    /\ error = "ValueError_too_few_levels"

\* C2: a duration list whose length differs from the number of agent
\* configurations ends construction with the list-length ValueError as soon as it
\* is validated; a list of matching length never raises that error.
C2_ListLengthChecked ==
    steps_arg.form = "list" =>
        IF Len(steps_arg.list) # GivenLevels
          THEN /\ pc \in {"init_validate_steps", "init_failed"}
               /\ InitFailed => error = "ValueError_list_length"
          ELSE error # "ValueError_list_length"

C2_Witness ==
    /\ InitFailed /\ error = "ValueError_list_length"
    /\ GivenLevels >= 2 /\ Len(steps_arg.list) < GivenLevels

\* C3: for every accepted configuration in the single or the list form,
\* _create_graph completes, and every non-top level manager has the configured
\* duration as its step budget (the level's own list entry in the list form).
C3_CreateGraphCompletesWithConfiguredBudgets ==
    (steps_arg.form \in {"single", "list"} /\ pc \in {"returned", "create_failed"}) =>
        /\ pc = "returned"
        /\ \A p \in 2..Len(returned.level_managers) :
              returned.level_managers[p].steps_limit = ConfiguredDuration(p - 1)

\* C4: the top level manager has a step budget of exactly one environment step
\* whatever duration was configured, and every other level manager built has the
\* configured duration, not a forced single step.
C4_TopLevelBudgetIsOneStep ==
    /\ \A p \in 1..Len(level_managers) :
          level_managers[p].steps_limit =
              IF IndexAt(level_managers, p) = 0 THEN 1
              ELSE consecutive_steps_to_run_non_top_levels.num_steps
    /\ pc = "returned" =>
          /\ returned.level_managers[1].steps_limit = 1
          /\ \A p \in 2..Len(returned.level_managers) :
                returned.level_managers[p].steps_limit = steps_arg.value

C4_Witness ==
    /\ pc = "returned" /\ GivenLevels = 3
    /\ steps_arg.form = "single" /\ steps_arg.value > 1

\* C5: _create_graph returns exactly N level managers, top first: entry i is
\* named level_i and wraps the agent named agent_i built from agents_params[i],
\* although the agents were instantiated from the bottom level upwards.
C5_ReturnedTopFirst ==
    pc = "returned" =>
        /\ Len(returned.level_managers) = GivenLevels
        /\ \A i \in 0..(GivenLevels - 1) :
              LET lm == returned.level_managers[i + 1]
              IN /\ lm.name = ExpectedLevelNames[i + 1]
                 /\ lm.agents.name = ExpectedAgentNames[i + 1]
                 /\ lm.agents.params_index = i
                 /\ lm.agents.params = agents_params[i + 1]
        /\ \A k \in 1..Len(agents) : agents[k].params_index = GivenLevels - k

C5_Witness ==
    /\ pc = "returned" /\ GivenLevels = 3
    /\ given_agents_params[1] # given_agents_params[3]

\* C6: the environment is instantiated once; the returned environment list holds
\* exactly that instance, and it is the root environment of every level manager.
C6_SingleRootEnvironment ==
    /\ env_instances <= 1
    /\ \A p \in 1..Len(level_managers) :
          level_managers[p].real_environment = EnvRef(1)
    /\ pc = "returned" =>
          /\ Len(returned.envs) = 1
          /\ returned.envs[1] = EnvRef(1)
          /\ env_instances = 1
          /\ \A p \in 1..Len(returned.level_managers) :
                returned.level_managers[p].real_environment = returned.envs[1]

C6_Witness ==
    /\ pc = "returned" /\ GivenLevels = 3
    /\ returned.level_managers[1].environment # returned.envs[1]

\* C7: once a hierarchy of N >= 2 levels is constructed, every agent
\* configuration has non-null filters: the environment's default where the filter
\* was unset, the explicit value otherwise, input and output independently.
C7_FiltersDefaulted ==
    (Accepted /\ GivenLevels >= 2) =>
        \A i \in 1..GivenLevels :
            /\ agents_params[i].input_filter # NoFilter
            /\ agents_params[i].output_filter # NoFilter
            /\ agents_params[i].input_filter =
                  IF given_agents_params[i].input_filter = NoFilter
                    THEN DefaultInputFilter
                    ELSE given_agents_params[i].input_filter
            /\ agents_params[i].output_filter =
                  IF given_agents_params[i].output_filter = NoFilter
                    THEN DefaultOutputFilter
                    ELSE given_agents_params[i].output_filter

C7_Witness ==
    /\ pc = "constructed" /\ GivenLevels >= 2
    /\ given_agents_params[1].input_filter = NoFilter
    /\ given_agents_params[1].output_filter # NoFilter
    /\ given_agents_params[2].input_filter # NoFilter
    /\ given_agents_params[2].output_filter = NoFilter

\* C8 (as stated): when construction fails with either configuration error,
\* nothing has been instantiated and no agent configuration has been modified.
C8_ErrorsBeforeAnythingElse ==
    InitFailed =>
        /\ NothingInstantiated
        /\ agents_params = given_agents_params

\* C8 (amended): when construction fails with either configuration error, no
\* environment, agent or level manager has been instantiated; the list-length
\* error leaves every agent configuration untouched, while the too-few-levels
\* error is raised after default filling, so the configurations carry the shared
\* visualization and their filters are filled in.
C8_ErrorsBeforeInstantiation ==
    InitFailed =>
        /\ NothingInstantiated
        /\ error = "ValueError_list_length" => agents_params = given_agents_params
        /\ error = "ValueError_too_few_levels" =>
              \A i \in 1..GivenLevels :
                  /\ agents_params[i].visualization = VisParams
                  /\ agents_params[i].input_filter # NoFilter
                  /\ agents_params[i].output_filter # NoFilter
                  /\ agents_params[i].task_parameters = given_agents_params[i].task_parameters
                  /\ agents_params[i].name = given_agents_params[i].name

C8_Witness ==
    /\ InitFailed /\ error = "ValueError_too_few_levels"
    /\ GivenLevels = 1
    /\ given_agents_params[1].input_filter = NoFilter
    /\ agents_params # given_agents_params

\* C9: levels are built strictly bottom-up; the level manager of the bottom
\* level is bound to the true environment and every other level i to the level
\* manager of level i + 1, which was built in the step before.
C9_LowerEnvironmentOf(lms, p) ==
    IF p = Len(lms) THEN EnvRef(1) ELSE LevelRef(IndexAt(lms, p) + 1)

C9_BoundBelow ==
    \A p \in 1..Len(level_managers) :
        /\ level_managers[p].name = ExpectedLevelNames[IndexAt(level_managers, p) + 1]
        /\ level_managers[p].environment = C9_LowerEnvironmentOf(level_managers, p)
        /\ level_managers[p].environment # LevelRef(IndexAt(level_managers, p))

C9_BuildStep ==
    Len(level_managers') > Len(level_managers) =>
        /\ level_managers' = <<Head(level_managers')>> \o level_managers
        /\ env_instances = 1
        /\ Head(level_managers').environment = current_env
        /\ Head(level_managers').name =
              ExpectedLevelNames[GivenLevels - Len(level_managers)]
        /\ current_env = IF level_managers = <<>> THEN env
                         ELSE LevelRef(GivenLevels - Len(level_managers))
        /\ Len(agents') = Len(level_managers')

C9_BuiltBottomUp == [](C9_BoundBelow) /\ [][C9_BuildStep]_vars

C9_Witness ==
    /\ pc = "returned" /\ GivenLevels = 3
    /\ returned.level_managers[1].environment = LevelRef(1)
    /\ returned.level_managers[2].environment = LevelRef(2)
    /\ returned.level_managers[3].environment = EnvRef(1)

\* C10: the reset-agent-state-after-time-limit flag is false for the top level
\* manager and true for every other level manager.
C10_ResetFlagOffOnlyAtTop ==
    /\ \A p \in 1..Len(level_managers) :
          level_managers[p].should_reset_agent_state_after_time_limit_passes
              = (IndexAt(level_managers, p) # 0)
    /\ pc = "returned" =>
          /\ ~returned.level_managers[1].should_reset_agent_state_after_time_limit_passes
          /\ \A p \in 2..Len(returned.level_managers) :
                returned.level_managers[p].should_reset_agent_state_after_time_limit_passes

C10_Witness ==
    /\ pc = "returned" /\ GivenLevels = 2
    /\ returned.level_managers[2].should_reset_agent_state_after_time_limit_passes
    /\ ~returned.level_managers[1].should_reset_agent_state_after_time_limit_passes
====
